---- MODULE Spec2Model ----
(***************************************************************************)
(* getSlidingWindow(x, dim, Tau, dT) of 1-SlidingWindowBasics.ipynb and    *)
(* 2-PersistentHomology.ipynb (the two definitions are textually the       *)
(* same), as a state machine: one action per statement of the function,    *)
(* driven by a caller that makes one call after another.                   *)
(*                                                                         *)
(* Tau and dT are real-valued in the code.  Here a call carries them as    *)
(* the numerators Tau, dT of fractions over a common denominator den, so   *)
(* the code's  dT*i + Tau*j  is  (dT*i + Tau*j)/den  and every floor and   *)
(* ceil is exact.  Signal samples are fixed-point integers (thousandths).  *)
(***************************************************************************)
EXTENDS Integers, Sequences, FiniteSets, TLC

VARIABLES
    x,        \* the signal array the caller passes (shared with the callee)
    x0,       \* the contents of that array when the call was made
    dim,      \* parameter dim
    Tau,      \* parameter Tau, numerator over den
    dT,       \* parameter dT, numerator over den
    den,      \* common denominator of Tau and dT
    pc,       \* position in getSlidingWindow, "idle" between calls
    NWindows, \* local NWindows
    X,        \* local X: a sequence of rows
    i,        \* loop variable i
    fits,     \* the arguments of the interp.spline calls made so far
    stdout,   \* what the call has printed
    outcome,  \* how the call ended: "matrix", "placeholder", "raise"
    exc,      \* the exception raised, "" when none
    ret,      \* the returned array
    probe,    \* caller's bookkeeping: inputs of a call it made earlier
    probeRes, \* caller's bookkeeping: what that call produced
    between,  \* caller's bookkeeping: a call made since then failed
    wphase,   \* concurrent workers: "off", "run", "gathered"
    todo,     \* the candidate windows no worker has processed yet
    wrows,    \* per candidate window, <<row>> once a worker computed it
    order,    \* the candidate windows in the order the workers processed them
    gathered  \* the workers' rows put together by row index

vars == <<x, x0, dim, Tau, dT, den, pc, NWindows, X, i, fits, stdout,
          outcome, exc, ret, probe, probeRes, between,
          wphase, todo, wrows, order, gathered>>

(***************************************************************************)
(* Bounds of the input sets.                                               *)
(***************************************************************************)
MaxN == 6
MaxDim == 3
MaxTau == 3
MaxDT == 3
MaxDen == 3
MaxWorkers == 4
RepN == 4
RepDim == 1
RepTau == 2
RepDT == 1

(***************************************************************************)
(* The signals of the notebooks.                                           *)
(***************************************************************************)
T == 40
NPeriods == 4
RampLen == 400

\* round(1000*cos(2*pi*k/T)) for k = 0..T-1
CosTable ==
    << 1000, 988, 951, 891, 809, 707, 588, 454, 309, 156,
       0, -156, -309, -454, -588, -707, -809, -891, -951, -988,
       -1000, -988, -951, -891, -809, -707, -588, -454, -309, -156,
       0, 156, 309, 454, 588, 707, 809, 891, 951, 988 >>

\* x = np.cos(t), t the first n of the sampling instants of period T
CosSignal(n) == [k \in 1..n |-> CosTable[((k - 1) % T) + 1]]

\* x = np.arange(400)/400.0 in thousandths, cut to n samples (the noise
\* term is left out)
RampSignal(n) == [k \in 1..n |-> ((k - 1) * 1000) \div RampLen]

Signals(n) == {CosSignal(n), RampSignal(n)}

(***************************************************************************)
(* numpy helpers.                                                          *)
(***************************************************************************)
Min(a, b) == IF a < b THEN a ELSE b
Max(a, b) == IF a > b THEN a ELSE b

\* np.floor(a/b) and np.ceil(a/b) for b > 0
Floor(a, b) == a \div b
Ceil(a, b) == -((-a) \div b)

\* An array entry is <<v>>, the number v, or <<p, d>>, the value at abscissa
\* p/d of the interpolant its row was read off.  A row of a 2D array is its
\* entries v together with that interpolant: the ends of its knots xk and
\* its samples yk (both empty for a row of plain numbers).
Exact(v) == <<v>>

\* the first and the last of a run of consecutive indices
Ends(xk) == IF xk = <<>> THEN <<>> ELSE <<xk[1], xk[Len(xk)]>>

\* np.empty((rows, cols)): the entries are what the heap held, which
\* changes with the arrays the caller keeps
Uninitialized(rows, cols) ==
    [r \in 1..rows |->
        [xk |-> <<>>, yk |-> <<>>, v |-> [c \in 1..cols |-> Exact(Len(probeRes))]]]

\* np.zeros((rows, cols))
Zeros(rows, cols) ==
    [r \in 1..rows |->
        [xk |-> <<>>, yk |-> <<>>, v |-> [c \in 1..cols |-> Exact(0)]]]

\* np.arange(n)
Arange(n) == [k \in 1..n |-> k - 1]

\* s[a:b] for a sequence s and 0 <= a
PySlice(s, a, b) ==
    LET lo == Min(a, Len(s))
        hi == Min(Max(b, lo), Len(s))
    IN  SubSeq(s, lo + 1, hi)

\* index in xk of the knot with abscissa p/d, 0 when p/d is no knot
KnotIndex(xk, p, d) ==
    IF p % d # 0 THEN 0
    ELSE LET hit == {m \in 1..Len(xk) : xk[m] * d = p}
         IN  IF hit = {} THEN 0 ELSE CHOOSE m \in hit : TRUE

\* interp.spline(xk, yk, xnew): the interpolant through (xk, yk) evaluated
\* at the abscissae xnew[j]/d.  At a knot it returns the knot's sample;
\* elsewhere the value is kept as a term: the abscissa, read off (xk, yk).
Spline(xk, yk, xnew, d) ==
    [xk |-> Ends(xk), yk |-> yk,
     v |-> [j \in 1..Len(xnew) |->
               LET m == KnotIndex(xk, xnew[j], d)
               IN  IF m # 0 THEN Exact(yk[m]) ELSE <<xnew[j], d>>]]

(***************************************************************************)
(* The statements of getSlidingWindow.                                     *)
(***************************************************************************)
\* idxx = Tau*np.arange(dim): the stride dT*i left out
IdxxNoStride(w) == [j \in 1..dim |-> Tau * (j - 1)]

\* idxx = dT*i + Tau*np.arange(dim), as numerators over den
Idxx(w) == [j \in 1..dim |-> dT * w + Tau * (j - 1)]

\* start = int(np.ceil(idxx[0])): rounded the wrong way
StartRoundedUp(w) == Ceil(Idxx(w)[1], den)

\* start = int(np.floor(idxx[0]))
Start(w) == Floor(Idxx(w)[1], den)

\* end = int(idxx[-1]): neither rounded up nor padded
EndUnpadded(w) == Floor(Idxx(w)[dim], den)

\* end = int(np.ceil(idxx[-1]))+3: one sample of padding too many
EndPaddedByThree(w) == Ceil(Idxx(w)[dim], den) + 3

\* end = int(np.ceil(idxx[-1]))+2
End(w) == Ceil(Idxx(w)[dim], den) + 2

\* int(np.floor((N-(dim-1)*Tau)/dT)): the extent of dim points Tau apart
WindowCountSpan == Floor(Len(x) * den - (dim - 1) * Tau, dT)

\* int(np.floor((N-dim*Tau)/dT))
WindowCount == Floor(Len(x) * den - dim * Tau, dT)

\* if end > len(x): the comparison off by one
FitsOffByOne(w) == End(w) <= Len(x)

\* if end >= len(x), negated: window w has the samples it needs
Fits(w) == End(w) < Len(x)

\* idx[start:end+1]
Knots(w) == PySlice(Arange(Len(x)), Start(w), End(w) + 1)

\* x[start+1:end+2]: the samples one place off their knots
SamplesShifted(w) == PySlice(x, Start(w) + 1, End(w) + 2)

\* x[start:end+1]
Samples(w) == PySlice(x, Start(w), End(w) + 1)

Frame == <<NWindows, X, i, fits, stdout, outcome, exc, ret>>
Args == <<x, x0, dim, Tau, dT, den>>
Pool == <<wphase, todo, wrows, order, gathered>>
Book == <<probe, probeRes, between, Pool>>

NoRet == <<>>

\* the argument lists the caller may pass
Inputs ==
    {[x |-> s, dim |-> d, Tau |-> t, dT |-> u, den |-> e] :
        s \in UNION {Signals(n) : n \in 1..MaxN},
        d \in 0..MaxDim, t \in 0..MaxTau, u \in 0..MaxDT, e \in 1..MaxDen}

\* the argument lists of the caller that repeats a call
RepInputs ==
    {[x |-> CosSignal(n), dim |-> d, Tau |-> t, dT |-> u, den |-> e] :
        n \in {1, RepN}, d \in 0..RepDim, t \in 0..RepTau, u \in 0..RepDT,
        e \in {1, MaxDen}}

\* the caller calls getSlidingWindow(x, dim, Tau, dT)
Enter(in) ==
    /\ pc = "idle"
    /\ x' = in.x /\ x0' = in.x
    /\ dim' = in.dim /\ Tau' = in.Tau /\ dT' = in.dT /\ den' = in.den
    /\ pc' = "l81"
    /\ UNCHANGED Frame

Call ==
    /\ pc = "idle"
    /\ \E in \in Inputs : Enter(in)
    /\ UNCHANGED Book

\* NWindows = int(np.floor((N-dim*Tau)/dT))
Line81 ==
    /\ pc = "l81"
    /\ dT # 0
    /\ NWindows' = WindowCount
    /\ pc' = "l82"
    /\ UNCHANGED <<Args, X, i, fits, stdout, outcome, exc, ret, Book>>

\* the same statement with dT = 0: ZeroDivisionError
DivideByZero ==
    /\ pc = "l81"
    /\ dT = 0
    /\ outcome' = "raise"
    /\ exc' = "ZeroDivisionError"
    /\ pc' = "done"
    /\ UNCHANGED <<Args, NWindows, X, i, fits, stdout, ret, Book>>

\* if NWindows <= 0: print(...); return np.zeros((3, dim))
Placeholder ==
    /\ pc = "l82"
    /\ NWindows <= 0
    /\ stdout' = Append(stdout, "Error: Tau too large for signal extent")
    /\ ret' = Zeros(3, dim)
    /\ outcome' = "placeholder"
    /\ pc' = "done"
    /\ UNCHANGED <<Args, NWindows, X, i, fits, exc, Book>>

\* X = np.zeros((NWindows, dim)); idx = np.arange(N); for i in range(NWindows)
Alloc ==
    /\ pc = "l82"
    /\ NWindows > 0
    /\ X' = Zeros(NWindows, dim)
    /\ i' = 0
    /\ pc' = "loop"
    /\ UNCHANGED <<Args, NWindows, fits, stdout, outcome, exc, ret, Book>>

\* idxx[0] with dim = 0: IndexError
EmptyWindow ==
    /\ pc = "loop"
    /\ i < NWindows
    /\ dim = 0
    /\ outcome' = "raise"
    /\ exc' = "IndexError"
    /\ pc' = "done"
    /\ UNCHANGED <<Args, NWindows, X, i, fits, stdout, ret, Book>>

\* if end >= len(x): break, X left at its NWindows rows
TruncateNoCut ==
    /\ pc = "loop"
    /\ i < NWindows
    /\ dim > 0
    /\ ~Fits(i)
    /\ pc' = "l98"
    /\ UNCHANGED <<Args, NWindows, X, i, fits, stdout, outcome, exc, ret, Book>>

\* if end >= len(x): X = X[0:i, :]; break
Truncate ==
    /\ pc = "loop"
    /\ i < NWindows
    /\ dim > 0
    /\ ~Fits(i)
    /\ X' = PySlice(X, 0, i)
    /\ pc' = "l98"
    /\ UNCHANGED <<Args, NWindows, i, fits, stdout, outcome, exc, ret, Book>>

\* X[i, :] = interp.spline(idx[start:end+1], x[start:end+1], idxx)
Window ==
    /\ pc = "loop"
    /\ i < NWindows
    /\ dim > 0
    /\ Fits(i)
    /\ X' = [X EXCEPT ![i + 1] = Spline(Knots(i), Samples(i), Idxx(i), den)]
    /\ fits' = Append(fits, [start |-> Start(i), end |-> End(i),
                             nk |-> Len(Knots(i)), idxx |-> Idxx(i)])
    /\ i' = i + 1
    /\ UNCHANGED <<Args, pc, NWindows, stdout, outcome, exc, ret, Book>>

\* range(NWindows) is exhausted
LoopEnd ==
    /\ pc = "loop"
    /\ i = NWindows
    /\ pc' = "l98"
    /\ UNCHANGED <<Args, Frame, Book>>

\* return X
Return ==
    /\ pc = "l98"
    /\ ret' = X
    /\ outcome' = "matrix"
    /\ pc' = "done"
    /\ UNCHANGED <<Args, NWindows, X, i, fits, stdout, exc, Book>>

\* what the caller sees of a finished call
Result == [outcome |-> outcome, exc |-> exc, ret |-> ret]

\* no call in progress: no parameters, no locals
FreshFrame ==
    /\ x' = <<>> /\ x0' = <<>> /\ dim' = 0 /\ Tau' = 0 /\ dT' = 0 /\ den' = 1
    /\ NWindows' = 0 /\ X' = <<>> /\ i' = 0 /\ fits' = <<>>
    /\ stdout' = <<>> /\ outcome' = "none" /\ exc' = "" /\ ret' = NoRet

\* the call is over: its frame is gone and the caller goes on
Finish ==
    /\ pc = "done"
    /\ pc' = "idle"
    /\ FreshFrame
    /\ UNCHANGED Book

\* the argument list of the call in progress
Given == [x |-> x, dim |-> dim, Tau |-> Tau, dT |-> dT, den |-> den]

\* a caller that repeats calls: it calls with arguments of RepInputs
CallRep ==
    /\ pc = "idle"
    /\ \E in \in RepInputs : Enter(in)
    /\ UNCHANGED Book

\* ... keeps the arguments and the result of one call
FinishKeep ==
    /\ pc = "done"
    /\ probe = <<>>
    /\ probe' = <<Given>>
    /\ probeRes' = <<Result>>
    /\ between' = FALSE
    /\ pc' = "idle"
    /\ FreshFrame
    /\ UNCHANGED Pool

\* ... and notes how the calls after it ended
FinishNote ==
    /\ pc = "done"
    /\ probe # <<>>
    /\ between' = (between \/ outcome # "matrix")
    /\ pc' = "idle"
    /\ FreshFrame
    /\ UNCHANGED <<probe, probeRes, Pool>>

Init ==
    /\ x = <<>> /\ x0 = <<>> /\ dim = 0 /\ Tau = 0 /\ dT = 0 /\ den = 1
    /\ pc = "idle"
    /\ NWindows = 0 /\ X = <<>> /\ i = 0 /\ fits = <<>>
    /\ stdout = <<>> /\ outcome = "none" /\ exc = "" /\ ret = NoRet
    /\ probe = <<>> /\ probeRes = <<>> /\ between = FALSE
    /\ wphase = "off" /\ todo = {} /\ wrows = <<>> /\ order = <<>>
    /\ gathered = <<>>

Body ==
    \/ Line81
    \/ DivideByZero
    \/ Placeholder
    \/ Alloc
    \/ EmptyWindow
    \/ Truncate
    \/ Window
    \/ LoopEnd
    \/ Return

Next ==
    \/ Call
    \/ Body
    \/ Finish

Spec == Init /\ [][Next]_vars

NextRepeat ==
    \/ CallRep
    \/ Body
    \/ FinishKeep
    \/ FinishNote

SpecRepeat == Init /\ [][NextRepeat]_vars

(***************************************************************************)
(* The per-window loop run by concurrent workers: after a call that        *)
(* returned a matrix, one worker per candidate window 0..NWindows-1, in    *)
(* any order, decides from its own index whether the window fits and       *)
(* computes its row from the signal; the rows are then put together by     *)
(* row index.                                                              *)
(***************************************************************************)
\* the workers start
Spawn ==
    /\ pc = "done"
    /\ outcome = "matrix"
    /\ wphase = "off"
    /\ NWindows <= MaxWorkers
    /\ wphase' = "run"
    /\ todo' = 0..(NWindows - 1)
    /\ wrows' = [w \in 0..(NWindows - 1) |-> <<>>]
    /\ order' = <<>>
    /\ UNCHANGED <<Args, pc, Frame, probe, probeRes, between, gathered>>

\* the worker of window w
Work(w) ==
    /\ wphase = "run"
    /\ w \in todo
    /\ todo' = todo \ {w}
    /\ wrows' = [wrows EXCEPT ![w] =
                   IF Fits(w)
                   THEN <<Spline(Knots(w), Samples(w), Idxx(w), den)>>
                   ELSE <<>>]
    /\ order' = Append(order, w)
    /\ UNCHANGED <<Args, pc, Frame, probe, probeRes, between, wphase, gathered>>

Worker == \E w \in todo : Work(w)

\* the rows of windows 0..n-1 in row order
RECURSIVE RowsUpTo(_, _)
RowsUpTo(rws, n) == IF n = 0 THEN <<>> ELSE RowsUpTo(rws, n - 1) \o rws[n - 1]

\* the ordered gather, once every worker is done
Gather ==
    /\ wphase = "run"
    /\ todo = {}
    /\ gathered' = RowsUpTo(wrows, NWindows)
    /\ wphase' = "gathered"
    /\ UNCHANGED <<Args, pc, Frame, probe, probeRes, between, todo, wrows, order>>

\* the caller drops the call's result and the workers'
FinishPool ==
    /\ pc = "done"
    /\ wphase \in {"off", "gathered"}
    /\ pc' = "idle"
    /\ FreshFrame
    /\ wphase' = "off" /\ todo' = {} /\ wrows' = <<>> /\ order' = <<>>
    /\ gathered' = <<>>
    /\ UNCHANGED <<probe, probeRes, between>>

NextWorkers ==
    \/ Call
    \/ Body
    \/ Spawn
    \/ Worker
    \/ Gather
    \/ FinishPool

SpecWorkers == Init /\ [][NextWorkers]_vars

(***************************************************************************)
(* The call of the notebooks' first experiment: x = cos over NPeriods      *)
(* periods of T samples, dim = 20, Tau = 1, dT = 0.5.                      *)
(***************************************************************************)
ScenDim == 20
ScenTau == 1
ScenDTNum == 1
ScenDTDen == 2

InitScenario ==
    /\ x = CosSignal(T * NPeriods) /\ x0 = CosSignal(T * NPeriods)
    /\ dim = ScenDim /\ Tau = ScenTau * ScenDTDen /\ dT = ScenDTNum
    /\ den = ScenDTDen
    /\ pc = "l81"
    /\ NWindows = 0 /\ X = <<>> /\ i = 0 /\ fits = <<>>
    /\ stdout = <<>> /\ outcome = "none" /\ exc = "" /\ ret = NoRet
    /\ probe = <<>> /\ probeRes = <<>> /\ between = FALSE
    /\ wphase = "off" /\ todo = {} /\ wrows = <<>> /\ order = <<>>
    /\ gathered = <<>>

NextScenario ==
    \/ Line81
    \/ Alloc
    \/ Window
    \/ Truncate
    \/ Return

SpecScenario == InitScenario /\ [][NextScenario]_vars

(***************************************************************************)
(* Vocabulary of the claims, written from the parameters alone.            *)
(***************************************************************************)
\* the preconditions dim >= 1, tau > 0, dT > 0
Valid == dim >= 1 /\ Tau > 0 /\ dT > 0

\* the candidate window count M = floor((N - dim*tau)/dT), for dT > 0
CandidateCount == (Len(x) * den - dim * Tau) \div dT

\* numerator over den of the position p_j = dT*w + tau*j, j = 0..dim-1
Position(w, j) == dT * w + Tau * j

\* ceil(dT*w + tau*(dim-1)) + 2, the right-padding index of window w
PaddingIndex(w) == 2 - ((-Position(w, dim - 1)) \div den)

\* the call is over and the caller holds its result
Done == pc = "done"

\* the call is over and handed an array back
Returned == Done /\ outcome \in {"matrix", "placeholder"}

\* the call is over and reported a failure instead of a matrix
Failed == Done /\ outcome = "raise" /\ ret = NoRet

(***************************************************************************)
(* C1.  With valid parameters and a candidate window count M <= 0 the call *)
(* reports a failure and returns no matrix, in particular no zero-filled   *)
(* 3 x dim placeholder.                                                    *)
(***************************************************************************)
C1_OversizedWindowFails ==
    (Done /\ Valid /\ CandidateCount <= 0) =>
        (Failed /\ ret # Zeros(3, dim))

(***************************************************************************)
(* C2.  On every return path, the placeholder path included, the returned  *)
(* matrix has at least 0 and at most floor((N - dim*tau)/dT) rows.         *)
(***************************************************************************)
C2_RowCountBound ==
    (Returned /\ Valid) =>
        (Len(ret) >= 0 /\ Len(ret) <= CandidateCount)

(***************************************************************************)
(* C3.  Every row i of the matrix the loop returns was evaluated at the    *)
(* positions p_j = dT*i + tau*j, j = 0..dim-1, and each of them lies in    *)
(* [0, N-1].                                                               *)
(***************************************************************************)
C3_PositionsInsideSignal ==
    (Done /\ Valid /\ outcome = "matrix") =>
        /\ Len(fits) = Len(ret)
        /\ \A r \in 1..Len(ret) : \A j \in 0..(dim - 1) :
            /\ fits[r].idxx[j + 1] = Position(r - 1, j)
            /\ 0 <= Position(r - 1, j)
            /\ Position(r - 1, j) <= (Len(x) - 1) * den

\* a truncated matrix of several rows evaluated at fractional positions
C3_Witness ==
    /\ Done /\ Valid /\ outcome = "matrix"
    /\ Len(ret) >= 2 /\ Len(ret) < NWindows
    /\ dim >= 2
    /\ \E j \in 0..(dim - 1) : Position(Len(ret) - 1, j) % den # 0

(***************************************************************************)
(* C4.  With valid parameters and M >= 1 the call returns a matrix and     *)
(* does not fail.  A candidate window whose right-padding index is >= N    *)
(* (in particular = N) has no row in it; the first such window w leaves    *)
(* exactly the rows 0..w-1, each one computed.  A candidate window with    *)
(* padding index N-1 whose predecessors all fit has its row.               *)
(***************************************************************************)
C4_TruncationBoundary ==
    (Done /\ Valid /\ CandidateCount >= 1) =>
        /\ outcome = "matrix"
        /\ Len(fits) = Len(ret)
        /\ \A w \in 0..(CandidateCount - 1) :
            LET firstMiss == \A v \in 0..(w - 1) : PaddingIndex(v) < Len(x)
            IN  /\ PaddingIndex(w) >= Len(x) => Len(ret) <= w
                /\ (PaddingIndex(w) >= Len(x) /\ firstMiss) => Len(ret) = w
                /\ (PaddingIndex(w) = Len(x) - 1 /\ firstMiss) => Len(ret) > w

\* window w has padding index N exactly and is dropped, window w-1 has
\* padding index N-1 and is the last row
C4_Witness ==
    /\ Done /\ Valid /\ outcome = "matrix"
    /\ Len(ret) >= 1 /\ Len(ret) < CandidateCount
    /\ PaddingIndex(Len(ret)) = Len(x)
    /\ PaddingIndex(Len(ret) - 1) = Len(x) - 1

(***************************************************************************)
(* C5.  With integer tau and integer dT every entry X[i][j] of the matrix  *)
(* the loop returns is the signal sample signal[dT*i + tau*j].             *)
(***************************************************************************)
C5_LatticeExactness ==
    (Done /\ Valid /\ outcome = "matrix" /\ Tau % den = 0 /\ dT % den = 0) =>
        \A r \in 1..Len(ret) : \A j \in 0..(dim - 1) :
            LET k == Position(r - 1, j) \div den
            IN  /\ k + 1 \in 1..Len(x)
                /\ ret[r].v[j + 1] = Exact(x[k + 1])

\* several rows of several integer positions, rows overlapping
C5_Witness ==
    /\ Done /\ Valid /\ outcome = "matrix"
    /\ Tau % den = 0 /\ dT % den = 0
    /\ Len(ret) >= 2 /\ dim >= 2
    /\ ret[1].v # ret[2].v

(***************************************************************************)
(* C6.  With valid parameters, when window 0 itself does not fit, that is  *)
(* ceil(tau*(dim-1)) + 2 >= N, the call reports a failure and returns no   *)
(* matrix; also when floor((N - dim*tau)/dT) >= 1.                         *)
(***************************************************************************)
C6_NoFullWindowFails ==
    (Done /\ Valid /\ PaddingIndex(0) >= Len(x)) => Failed

(***************************************************************************)
(* C7.  A call with dim < 1 or tau <= 0 or dT <= 0 is rejected with        *)
(* InvalidParameters: no window is computed, no matrix is returned and no  *)
(* other kind of failure is raised.                                        *)
(***************************************************************************)
C7_InvalidParametersRejected ==
    (Done /\ ~Valid) =>
        (Failed /\ exc = "InvalidParameters" /\ fits = <<>>)

(***************************************************************************)
(* C8.  A call with the arguments of an earlier call ends the way that     *)
(* call ended: same outcome, same rows, same entries, whatever calls were  *)
(* made in between.                                                        *)
(***************************************************************************)
C8_Determinism ==
    (Done /\ probe # <<>> /\ Given = probe[1]) => Result = probeRes[1]

\* a repeated call that returns rows, after a call in between that failed
C8_Witness ==
    /\ Done /\ probe # <<>> /\ Given = probe[1]
    /\ between
    /\ outcome = "matrix" /\ Len(ret) >= 2

\* a repeated call that ends in the placeholder, after a failed call
C8_WitnessFailure ==
    /\ Done /\ probe # <<>> /\ Given = probe[1]
    /\ between
    /\ outcome = "placeholder" /\ dim >= 1

(***************************************************************************)
(* C9.  The call has no side effect on any path: when it is over the       *)
(* signal is what it was and nothing was printed.                          *)
(***************************************************************************)
C9_NoSideEffects ==
    Done => (x = x0 /\ stdout = <<>>)

(***************************************************************************)
(* C10.  N = 160, dim = 20, tau = 1, dT = 0.5: the candidate window count  *)
(* is 280, and the returned matrix has 20 columns and 280 minus the number *)
(* of windows i in 0..279 with ceil(0.5*i + 19) + 2 >= 160 rows.           *)
(***************************************************************************)
C10_Scenario ==
    /\ pc # "l81" => NWindows = 280
    /\ Done =>
        /\ Len(x) = 160
        /\ outcome = "matrix"
        /\ Len(ret) =
             280 - Cardinality({w \in 0..279 : 2 - ((-(w + 38)) \div 2) >= 160})
        /\ \A r \in 1..Len(ret) : Len(ret[r].v) = 20

\* the call of the scenario is over and handed back 277 rows
C10_Witness ==
    /\ Done /\ outcome = "matrix"
    /\ dim = 20 /\ Tau = 1 * den /\ 2 * dT = den
    /\ Len(ret) = 277

(***************************************************************************)
(* C11.  With valid parameters and M >= 1 the returned matrix is exactly   *)
(* the candidate windows 0..M-1 whose end index is < N, in increasing      *)
(* order: row i is the interpolation through signal[start..end] read at    *)
(* the positions dT*i + tau*j, j = 0..dim-1, it has dim entries, and no    *)
(* candidate window after the last row would have fit.                     *)
(***************************************************************************)
\* the row of window w as the claim describes it
ClaimedRow(w) ==
    LET s == Position(w, 0) \div den
        e == PaddingIndex(w)
    IN  [xk |-> <<s, e>>,
         yk |-> SubSeq(x, s + 1, e + 1),
         v  |-> [j \in 1..dim |->
                   LET p == Position(w, j - 1)
                   IN  IF p % den = 0 THEN <<x[(p \div den) + 1]>>
                       ELSE <<p, den>>]]

C11_ExactlyTheFittingWindows ==
    (Done /\ Valid /\ CandidateCount >= 1) =>
        /\ outcome = "matrix"
        /\ Len(ret) = Cardinality({w \in 0..(CandidateCount - 1) :
                                      PaddingIndex(w) < Len(x)})
        /\ \A r \in 1..Len(ret) :
            /\ PaddingIndex(r - 1) < Len(x)
            /\ Len(ret[r].v) = dim
            /\ ret[r] = ClaimedRow(r - 1)
        /\ \A w \in Len(ret)..(CandidateCount - 1) : PaddingIndex(w) >= Len(x)

\* a matrix cut short of M, its rows read at fractional positions, with
\* more than one candidate window left out
C11_Witness ==
    /\ Done /\ Valid /\ outcome = "matrix"
    /\ Len(ret) >= 2 /\ Len(ret) + 2 <= CandidateCount
    /\ dim >= 2
    /\ \E j \in 1..dim : Len(ret[2].v[j]) = 2

(***************************************************************************)
(* C12.  Row independence: when concurrent workers process the candidate   *)
(* windows 0..M-1 in any order, each deciding from its own index whether   *)
(* its window fits and computing its row from the signal, the fitting rows *)
(* gathered by row index are exactly the matrix of the sequential loop     *)
(* that stops at the first window that does not fit.                       *)
(***************************************************************************)
C12_RowIndependence ==
    wphase = "gathered" => (outcome = "matrix" /\ gathered = ret)

\* the workers ran last window first, the sequential loop was cut short,
\* and both hold the same two or more rows
C12_Witness ==
    /\ wphase = "gathered" /\ Valid
    /\ Len(ret) >= 2 /\ Len(ret) < NWindows
    /\ Len(gathered) = Len(ret)
    /\ \A k \in 1..Len(order) : order[k] = NWindows - k

(***************************************************************************)
(* C13.  With valid parameters every window that is interpolated uses the  *)
(* knot range [start, end], start = floor(p_0), end = ceil(p_{dim-1}) + 2, *)
(* which lies inside the signal (0 <= start, end <= N-1) and brackets      *)
(* every position of the window with two samples to spare on the right     *)
(* (start <= p_j <= end - 2), so no interpolation reads outside            *)
(* signal[0..N-1].                                                         *)
(***************************************************************************)
C13_KnotRangeInsideSignal ==
    Valid =>
        \A r \in 1..Len(fits) :
            LET f == fits[r]
            IN  /\ f.start = Position(r - 1, 0) \div den
                /\ f.end = PaddingIndex(r - 1)
                /\ 0 <= f.start /\ f.end <= Len(x) - 1
                /\ f.nk = f.end - f.start + 1
                /\ \A j \in 0..(dim - 1) :
                    /\ f.idxx[j + 1] = Position(r - 1, j)
                    /\ f.start * den <= Position(r - 1, j)
                    /\ Position(r - 1, j) <= (f.end - 2) * den

\* the last window that fits, at fractional positions, with its range
\* ending on the last sample
C13_Witness ==
    /\ Valid /\ Done /\ dim >= 2
    /\ Len(fits) >= 2
    /\ fits[Len(fits)].end = Len(x) - 1
    /\ fits[Len(fits)].idxx[1] % den # 0
    /\ fits[Len(fits)].idxx[dim] % den # 0

(***************************************************************************)
(* C14.  For all valid parameters, dim = 1 included, every interpolation   *)
(* is fitted on at least 4 signal samples: end - start + 1 >= 4.           *)
(***************************************************************************)
C14_AtLeastFourSamples ==
    Valid =>
        \A r \in 1..Len(fits) :
            /\ fits[r].end - fits[r].start + 1 >= 4
            /\ fits[r].nk >= 4

(***************************************************************************)
(* C15.  With valid parameters, M >= 1 and tau + dT >= 3 the truncation    *)
(* branch is never taken: every candidate window 0..M-1 has                *)
(* ceil(dT*i + tau*(dim-1)) + 2 <= N-1 and the matrix has exactly M rows.  *)
(***************************************************************************)
C15_NoTruncationWhenSparse ==
    (Done /\ Valid /\ CandidateCount >= 1 /\ Tau + dT >= 3 * den) =>
        /\ outcome = "matrix"
        /\ i = NWindows
        /\ Len(ret) = CandidateCount
        /\ Len(fits) = CandidateCount
        /\ \A w \in 0..(CandidateCount - 1) : PaddingIndex(w) <= Len(x) - 1

\* tau + dT = 3 exactly, several windows, the last one ending on the last
\* sample
C15_Witness ==
    /\ Done /\ Valid /\ Tau + dT = 3 * den
    /\ CandidateCount >= 2
    /\ Len(ret) = CandidateCount
    /\ PaddingIndex(CandidateCount - 1) = Len(x) - 1

====
